---------------------------- MODULE Spec2Model ----------------------------
(***************************************************************************)
(* HPACKHeaderName (proxygen/lib/http/codec/compress/HPACKHeaderName.h).   *)
(*                                                                         *)
(* A handle holds one pointer, address_.  It is nullptr (Empty), points    *)
(* into the table of common header names (Borrowed) or points to a         *)
(* std::string the handle allocated itself (Owned).  The model keeps a     *)
(* small set of handle objects, the heap the owned strings live in and the *)
(* table of common names, and has one action per constructor, assignment   *)
(* operator, destructor and accessor of the class.                         *)
(*                                                                         *)
(* Strings are sequences of byte values, so that ::tolower and the         *)
(* byte-wise comparisons of std::string are computed, not assumed.         *)
(***************************************************************************)
EXTENDS Integers, Sequences, FiniteSets

\* ------------------------------------------------------------------ bounds
\* Number of handle objects (stack slots) the program uses.
NumHandles == 3
\* Longest raw header name handed to a constructor or assignment.
MaxLen == 1

Handles == 1..NumHandles

\* The bytes raw names are made of: 'A', 'B', 'a', 'b', 'c'.
Alphabet == {65, 66, 97, 98, 99}

\* All raw names of at most MaxLen bytes over Alphabet.
Names == UNION {[1..n -> Alphabet] : n \in 0..MaxLen}

\* ---------------------------------------------------------- string helpers
\* ::tolower in the "C" locale: 'A'..'Z' map to 'a'..'z', every other byte
\* is returned unchanged.
tolower(c) == IF c \in 65..90 THEN c + 32 ELSE c

\* std::transform(name.begin(), name.end(), newAddress->begin(), ::tolower)
ToLower(s) == [i \in 1..Len(s) |-> tolower(s[i])]

\* std::string operator< : lexicographic comparison of the bytes, a proper
\* prefix being smaller.
StrLess(s, t) ==
  \E k \in 0..Len(s) :
    /\ k <= Len(t)
    /\ \A i \in 1..k : s[i] = t[i]
    /\ \/ k = Len(s) /\ k < Len(t)
       \/ k < Len(s) /\ k < Len(t) /\ s[k + 1] < t[k + 1]

\* std::string operator== : same length, same bytes.
StrEq(s, t) == Len(s) = Len(t) /\ \A i \in 1..Len(s) : s[i] = t[i]

\* ------------------------------------------- HTTPCommonHeaders (registry)
\* The lowercase table of common header names, laid out alphabetically:
\* "a", "c".  ("" and "b" are then names of no common header.)
CommonTable == << <<97>>, <<99>> >>

\* HTTPHeaderCode: the two sentinels, then one code per table entry.
HTTP_HEADER_NONE == 0
HTTP_HEADER_OTHER == 1
HTTPHeaderCodeCommonOffset == 2

CommonCodes ==
  HTTPHeaderCodeCommonOffset .. (HTTPHeaderCodeCommonOffset + Len(CommonTable) - 1)

\* The entry of the table a common code names.
TableEntry(code) == CommonTable[code - HTTPHeaderCodeCommonOffset + 1]

\* HTTPCommonHeaders::hash(name, len): the code of the common header that
\* matches name case-insensitively, HTTP_HEADER_OTHER when there is none.
hash(name) ==
  IF \E c \in CommonCodes : StrEq(TableEntry(c), ToLower(name))
    THEN CHOOSE c \in CommonCodes : StrEq(TableEntry(c), ToLower(name))
    ELSE HTTP_HEADER_OTHER

\* ---------------------------------------------------------------- pointers
\* Addresses are numbers.  The table is an array of std::string, so the
\* address of an entry grows with its code; the heap lies above the table.
nullptr == 0

\* HTTPCommonHeaders::getPointerToHeaderName(code, TABLE_LOWERCASE)
getPointerToHeaderName(code) == code

TableAddrs == {getPointerToHeaderName(c) : c \in CommonCodes}

\* HTTPCommonHeaders::isHeaderNameFromTable(ptr, TABLE_LOWERCASE)
isHeaderNameFromTable(p) == p \in TableAddrs

\* One heap cell per handle is enough for a program that never leaks.
HeapBase == HTTPHeaderCodeCommonOffset + Len(CommonTable)
HeapAddrs == (HeapBase + 1) .. (HeapBase + NumHandles)

\* A heap cell: in use with a string in it, or free.
FreeCell == [used |-> FALSE, str |-> <<>>]
Cell(s) == [used |-> TRUE, str |-> s]

\* ------------------------------------------------------------------- state
VARIABLES
  live,      \* live[h]: handle h is constructed and not yet destroyed
  address_,  \* address_[h]: the member address_ of handle h
  heap,      \* heap[p]: the cell at heap address p
  raw,       \* raw[h]: history, the raw name the value held by h was
             \* classified from (it travels with the value on copy and move)
  badFree,   \* a delete hit something that is not an allocated heap string
  last       \* the operation that produced this state: its name, the
             \* handles it ran on, what an accessor returned, and how many
             \* strings it deleted and allocated

vars == <<live, address_, heap, raw, badFree, last>>

\* The memory the member functions read and write, as one value.
\* frees and allocs count the delete and new expressions of one operation.
Cur ==
  [address_ |-> address_, heap |-> heap, raw |-> raw, badFree |-> badFree,
   frees |-> 0, allocs |-> 0]

\* *p for a pointer into the table or the heap.
Deref(m, p) == IF isHeaderNameFromTable(p) THEN TableEntry(p) ELSE m.heap[p].str

\* operator new: any free cell may be returned.
FreeAddrs(m) == {p \in HeapAddrs : ~m.heap[p].used}

\* delete p
delete(m, p) ==
  IF p \in HeapAddrs /\ m.heap[p].used
    THEN [m EXCEPT !.heap[p] = FreeCell, !.frees = @ + 1]
    ELSE [m EXCEPT !.badFree = TRUE, !.frees = @ + 1]


\* -------------------------------------------------- private member functions
\* isAllocated(): address_ is neither nullptr nor a pointer into the table.
isAllocated(m, h) ==
  IF m.address_[h] = nullptr
    THEN FALSE
    ELSE ~isHeaderNameFromTable(m.address_[h])

\* get(): *address_
get(m, h) == Deref(m, m.address_[h])

\* A resetAddress() that forgets the delete.
resetAddress_NoDelete(m, h) ==
  [m EXCEPT !.address_[h] = nullptr, !.raw[h] = <<>>]

\* resetAddress(): delete an allocated string, then address_ = nullptr.
resetAddress(m, h) ==
  LET m1 == IF isAllocated(m, h) THEN delete(m, m.address_[h]) ELSE m
  IN  [m1 EXCEPT !.address_[h] = nullptr, !.raw[h] = <<>>]

\* A storeAddress() that copies the name without ::tolower.
storeAddress_NoLower(m, h, name, p) ==
  LET headerCode == hash(name)
  IN  IF headerCode = HTTP_HEADER_NONE \/ headerCode = HTTP_HEADER_OTHER
        THEN [m EXCEPT !.heap[p] = Cell(name),
                       !.allocs = @ + 1,
                       !.address_[h] = p,
                       !.raw[h] = name]
        ELSE [m EXCEPT !.address_[h] = getPointerToHeaderName(headerCode),
                       !.raw[h] = name]

\* A storeAddress() that allocates for every name, common or not.
storeAddress_AlwaysAllocate(m, h, name, p) ==
  [m EXCEPT !.heap[p] = Cell(ToLower(name)),
            !.allocs = @ + 1,
            !.address_[h] = p,
            !.raw[h] = name]

\* storeAddress(name): classify name; allocate a lowercased copy at the cell
\* p that operator new returned when it is no common header, point into the
\* table otherwise.
storeAddress(m, h, name, p) ==
  LET headerCode == hash(name)
  IN  IF headerCode = HTTP_HEADER_NONE \/ headerCode = HTTP_HEADER_OTHER
        THEN [m EXCEPT !.heap[p] = Cell(ToLower(name)),
                       !.allocs = @ + 1,
                       !.address_[h] = p,
                       !.raw[h] = name]
        ELSE [m EXCEPT !.address_[h] = getPointerToHeaderName(headerCode),
                       !.raw[h] = name]

\* A copyAddress() that copies the pointer whatever it points to.
copyAddress_Shallow(m, h, s, p) ==
  [m EXCEPT !.address_[h] = m.address_[s], !.raw[h] = m.raw[s]]

\* A copyAddress() without its else branch.
copyAddress_OnlyAllocated(m, h, s, p) ==
  IF isAllocated(m, s)
    THEN [m EXCEPT !.heap[p] = Cell(get(m, s)),
                   !.allocs = @ + 1,
                   !.address_[h] = p,
                   !.raw[h] = m.raw[s]]
    ELSE m

\* copyAddress(headerName): a new string with the same content at the cell p
\* that operator new returned when the source is allocated, the source's
\* pointer otherwise.
copyAddress(m, h, s, p) ==
  IF isAllocated(m, s)
    THEN [m EXCEPT !.heap[p] = Cell(get(m, s)),
                   !.allocs = @ + 1,
                   !.address_[h] = p,
                   !.raw[h] = m.raw[s]]
    ELSE [m EXCEPT !.address_[h] = m.address_[s],
                   !.raw[h] = m.raw[s]]

\* A moveAddress() that leaves goner.address_ as it was.
moveAddress_KeepSource(m, h, g) ==
  [m EXCEPT !.address_[h] = m.address_[g], !.raw[h] = m.raw[g]]

\* moveAddress(goner): address_ = goner.address_; goner.address_ = nullptr.
moveAddress(m, h, g) ==
  LET m1 == [m EXCEPT !.address_[h] = m.address_[g], !.raw[h] = m.raw[g]]
  IN  [m1 EXCEPT !.address_[g] = nullptr, !.raw[g] = <<>>]

\* --------------------------------------------------- public member functions
\* isCommonName()
isCommonName(m, h) == m.address_[h] # nullptr /\ ~isAllocated(m, h)

\* An operator== that compares the pointers only.
OperatorEq_AddressOnly(m, a, b) == m.address_[a] = m.address_[b]

\* operator==
OperatorEq(m, a, b) ==
  \/ m.address_[a] = m.address_[b]
  \/ StrEq(get(m, a), get(m, b))

\* An operator< that compares the pointers whatever they point to.
OperatorLt_AddressOnly(m, a, b) == m.address_[a] < m.address_[b]

\* operator<
OperatorLt(m, a, b) ==
  IF ~isAllocated(m, a) /\ ~isAllocated(m, b)
    THEN m.address_[a] < m.address_[b]
    ELSE StrLess(get(m, a), get(m, b))

\* operator>
OperatorGt(m, a, b) ==
  IF ~isAllocated(m, a) /\ ~isAllocated(m, b)
    THEN m.address_[a] > m.address_[b]
    ELSE StrLess(get(m, b), get(m, a))

\* operator>=
OperatorGe(m, a, b) == ~OperatorLt(m, a, b)

\* operator<=
OperatorLe(m, a, b) == ~OperatorGt(m, a, b)

\* What get(), size(), data() and c_str() can do when address_ is nullptr:
\* the dereference is undefined behaviour, so the call may hand back a
\* reference or pointer formed from null, fault, or return whatever it read.
Accessors == {"get", "size", "data", "c_str"}
NullDerefOutcomes == {"nullref", "segv", "garbage"}

\* ------------------------------------------------------------------ actions
NoOp == [op |-> "init", dst |-> 0, src |-> 0, ret |-> "none", frees |-> 0, allocs |-> 0]
Op(name, d, s) == [NoOp EXCEPT !.op = name, !.dst = d, !.src = s]
Returned(fn, h, r) == [NoOp EXCEPT !.op = fn, !.dst = h, !.src = h, !.ret = r]

\* A run is followed up to the first accessor call: the call changes no
\* handle, so what can follow it can also follow the state it was made in.
Running == last.ret = "none"

Install(m, l) ==
  /\ address_' = m.address_
  /\ heap' = m.heap
  /\ raw' = m.raw
  /\ badFree' = m.badFree
  /\ last' = [l EXCEPT !.frees = m.frees, !.allocs = m.allocs]

Init ==
  /\ live = [h \in Handles |-> FALSE]
  /\ address_ = [h \in Handles |-> nullptr]
  /\ heap = [p \in HeapAddrs |-> FreeCell]
  /\ raw = [h \in Handles |-> <<>>]
  /\ badFree = FALSE
  /\ last = NoOp

\* HPACKHeaderName()
DefaultConstruct(h) ==
  /\ Running /\ ~live[h]
  /\ live' = [live EXCEPT ![h] = TRUE]
  /\ Install([Cur EXCEPT !.address_[h] = nullptr, !.raw[h] = <<>>],
             Op("ctorDefault", h, h))

\* explicit HPACKHeaderName(folly::StringPiece name)
ConstructFromText(h, name) ==
  /\ Running /\ ~live[h]
  /\ live' = [live EXCEPT ![h] = TRUE]
  /\ \E p \in FreeAddrs(Cur) :
       Install(storeAddress(Cur, h, name, p), Op("ctorText", h, h))

\* HPACKHeaderName(const HPACKHeaderName& headerName)
CopyConstruct(h, s) ==
  /\ Running /\ ~live[h] /\ live[s]
  /\ live' = [live EXCEPT ![h] = TRUE]
  /\ \E p \in FreeAddrs(Cur) :
       Install(copyAddress(Cur, h, s, p), Op("ctorCopy", h, s))

\* HPACKHeaderName(HPACKHeaderName&& goner)
MoveConstruct(h, s) ==
  /\ Running /\ ~live[h] /\ live[s]
  /\ live' = [live EXCEPT ![h] = TRUE]
  /\ Install(moveAddress(Cur, h, s), Op("ctorMove", h, s))

\* void operator=(folly::StringPiece name)
AssignText(h, name) ==
  /\ Running /\ live[h]
  /\ UNCHANGED live
  /\ LET m1 == resetAddress(Cur, h)
     IN  \E p \in FreeAddrs(m1) :
           Install(storeAddress(m1, h, name, p), Op("assignText", h, h))

\* void operator=(const HPACKHeaderName& headerName)
CopyAssign(h, s) ==
  /\ Running /\ live[h] /\ live[s]
  /\ UNCHANGED live
  /\ LET m1 == resetAddress(Cur, h)
     IN  \E p \in FreeAddrs(m1) :
           Install(copyAddress(m1, h, s, p), Op("assignCopy", h, s))

\* void operator=(HPACKHeaderName&& goner)
MoveAssign(h, s) ==
  /\ Running /\ live[h] /\ live[s]
  /\ UNCHANGED live
  /\ Install(moveAddress(resetAddress(Cur, h), h, s), Op("assignMove", h, s))

\* ~HPACKHeaderName()
Destroy(h) ==
  /\ Running /\ live[h]
  /\ live' = [live EXCEPT ![h] = FALSE]
  /\ Install(resetAddress(Cur, h), Op("dtor", h, h))

\* get(), size(), data(), c_str(): each dereferences address_ unchecked.
Access(h, fn) ==
  /\ Running /\ live[h]
  /\ UNCHANGED <<live, address_, heap, raw, badFree>>
  /\ IF address_[h] = nullptr
       THEN \E r \in NullDerefOutcomes : last' = Returned(fn, h, r)
       ELSE last' = Returned(fn, h, "value")

Next ==
  \/ \E h \in Handles : DefaultConstruct(h)
  \/ \E h \in Handles, name \in Names : ConstructFromText(h, name)
  \/ \E h, s \in Handles : CopyConstruct(h, s)
  \/ \E h, s \in Handles : MoveConstruct(h, s)
  \/ \E h \in Handles, name \in Names : AssignText(h, name)
  \/ \E h, s \in Handles : CopyAssign(h, s)
  \/ \E h, s \in Handles : MoveAssign(h, s)
  \/ \E h \in Handles : Destroy(h)
  \/ \E h \in Handles, fn \in Accessors : Access(h, fn)

Spec == Init /\ [][Next]_vars

\* ------------------------------------------------------------- type check
TypeOK ==
  /\ live \in [Handles -> BOOLEAN]
  /\ address_ \in [Handles -> {nullptr} \cup TableAddrs \cup HeapAddrs]
  /\ \A p \in HeapAddrs : heap[p].used \in BOOLEAN
  /\ badFree \in BOOLEAN

\* ------------------------------------------------------------ vocabulary
Empty(h) == live[h] /\ address_[h] = nullptr
Borrowed(h) == live[h] /\ address_[h] \in TableAddrs
Owned(h) == live[h] /\ address_[h] \in HeapAddrs
Valued(h) == live[h] /\ address_[h] # nullptr

TextOps == {"ctorText", "assignText"}
CopyOps == {"ctorCopy", "assignCopy"}
MoveOps == {"ctorMove", "assignMove"}

\* ---------------------------------------------------------------------- C1
\* C1: two handles built from raw names N1 and N2 compare equal with
\* operator== exactly when the ASCII-lowercased names are equal, whether
\* the names are common or custom.
C1_EqualIffSameLowercase ==
  \A a, b \in Handles :
    Valued(a) /\ Valued(b) =>
      (OperatorEq(Cur, a, b) <=> StrEq(ToLower(raw[a]), ToLower(raw[b])))

\* Two handles own different strings, were built from names that differ in
\* case only, and compare equal; a third was built from a common name.
C1_Witness ==
  \E a, b, c \in Handles :
    /\ Owned(a) /\ Owned(b) /\ Borrowed(c)
    /\ address_[a] # address_[b]
    /\ ~StrEq(raw[a], raw[b])
    /\ OperatorEq(Cur, a, b)
    /\ ~OperatorEq(Cur, a, c)

\* ---------------------------------------------------------------------- C2
\* C2: no two distinct live handles point to the same heap string, and no
\* live handle points to a heap string that has been freed.
C2_NoSharedNoDangling ==
  \A h \in Handles :
    live[h] /\ isAllocated(Cur, h) =>
      /\ heap[address_[h]].used
      /\ \A g \in Handles : g # h /\ live[g] => address_[g] # address_[h]

\* A copy of an owning handle has just been made: source and destination
\* each own a string with the same content.
C2_Witness ==
  /\ last.op \in CopyOps
  /\ last.dst # last.src
  /\ Owned(last.dst) /\ Owned(last.src)
  /\ StrEq(get(Cur, last.dst), get(Cur, last.src))

\* ---------------------------------------------------------------------- C3
\* C3: every delete hits an allocated heap string (so none is freed twice
\* and no table entry is freed), an operation deletes at most the one
\* string its destination owned, and every allocated string is owned by a
\* live handle (so a reassignment or destruction leaves nothing behind, and
\* with every handle destroyed the heap is empty).
C3_FreedExactlyOnce ==
  /\ ~badFree
  /\ last.frees <= 1
  /\ \A p \in HeapAddrs :
       heap[p].used => \E h \in Handles : live[h] /\ address_[h] = p
  /\ (\A h \in Handles : ~live[h]) => \A p \in HeapAddrs : ~heap[p].used

\* The last handle alive owned a string and has just been destroyed.
C3_Witness ==
  /\ last.op = "dtor"
  /\ last.frees = 1
  /\ \A h \in Handles : ~live[h]

\* ---------------------------------------------------------------------- C4
\* What a move from s into d must establish: d has the pointer, and so the
\* state and content, s had; s is Empty; nothing was allocated.
MovePost(d, s) ==
  /\ address_'[d] = address_[s]
  /\ address_[s] # nullptr => StrEq(get(Cur', d), get(Cur, s))
  /\ raw'[d] = raw[s]
  /\ address_'[s] = nullptr
  /\ last'.allocs = 0

\* C4 as stated: after any move construction or move assignment from a
\* into b, b holds the state and content a held, a is Empty, and nothing
\* was allocated.
C4_MoveTransfers_Original ==
  [][last'.op \in MoveOps => MovePost(last'.dst, last'.src)]_vars

\* C4 amended: that holds for a move into a different handle; a move
\* assignment of a handle to itself leaves it Empty, its string deleted.
C4_MoveTransfers ==
  [][last'.op \in MoveOps =>
       IF last'.dst # last'.src
         THEN MovePost(last'.dst, last'.src)
         ELSE /\ address_'[last'.dst] = nullptr
              /\ last'.allocs = 0
              /\ last'.frees = (IF isAllocated(Cur, last'.dst) THEN 1 ELSE 0)]_vars

\* An owning handle has been move-assigned into another owning handle.
C4_Witness ==
  /\ last.op = "assignMove"
  /\ last.dst # last.src
  /\ last.frees = 1
  /\ Owned(last.dst)
  /\ Empty(last.src)

\* ---------------------------------------------------------------------- C5
\* C5: an accessor called on an Empty handle fails with a checked
\* InvalidState error.
C5_EmptyAccessIsChecked ==
  last.op \in Accessors /\ Empty(last.dst) => last.ret = "InvalidState"

\* ---------------------------------------------------------------------- C6
\* C6: over the handles that hold a name, <, > and == are a strict total
\* order: < is irreflexive, antisymmetric and transitive, exactly one of
\* a < b, a == b, a > b holds, a > b is b < a, and >= and <= are the
\* negations of < and >.
C6_StrictTotalOrder ==
  \A a, b, c \in Handles :
    Valued(a) /\ Valued(b) /\ Valued(c) =>
      LET lt == OperatorLt(Cur, a, b)
          gt == OperatorGt(Cur, a, b)
          eq == OperatorEq(Cur, a, b)
      IN  /\ ~OperatorLt(Cur, a, a)
          /\ ~(lt /\ OperatorLt(Cur, b, a))
          /\ lt /\ OperatorLt(Cur, b, c) => OperatorLt(Cur, a, c)
          /\ lt \/ eq \/ gt
          /\ ~(lt /\ eq) /\ ~(lt /\ gt) /\ ~(eq /\ gt)
          /\ gt <=> OperatorLt(Cur, b, a)
          /\ OperatorGe(Cur, a, b) <=> (gt \/ eq)
          /\ OperatorLe(Cur, a, b) <=> (lt \/ eq)

\* A common name, a custom name and another common name in ascending
\* order: the first and last are compared by address, the middle one by
\* content.
C6_Witness ==
  \E a, b, c \in Handles :
    /\ Borrowed(a) /\ Owned(b) /\ Borrowed(c)
    /\ OperatorLt(Cur, a, b) /\ OperatorLt(Cur, b, c) /\ OperatorLt(Cur, a, c)

\* ---------------------------------------------------------------------- C7
\* What a copy from s into d must establish: d is in the state kind s was
\* in (its own string with the same content, the same table pointer, or
\* Empty), and s is as it was.
CopyPost(d, s) ==
  /\ isAllocated(Cur, s) =>
       /\ isAllocated(Cur', d)
       /\ StrEq(get(Cur', d), get(Cur, s))
  /\ isHeaderNameFromTable(address_[s]) => address_'[d] = address_[s]
  /\ address_[s] = nullptr => address_'[d] = nullptr
  /\ address_[s] # nullptr => OperatorEq(Cur', d, s)
  /\ d # s => address_'[s] = address_[s]
  /\ address_[s] # nullptr =>
       address_'[s] # nullptr /\ StrEq(get(Cur', s), get(Cur, s))

\* C7: after a copy construction, or a copy assignment a = b for every
\* choice of a and b, the destination is in the state kind the source was
\* in, equal to it, and the source is unchanged.
C7_CopyIsValueCopy ==
  [][last'.op \in CopyOps => CopyPost(last'.dst, last'.src)]_vars

\* ---------------------------------------------------------------------- C8
\* C8: a handle just constructed or assigned from raw text N owns a newly
\* allocated string when the registry has no match for N and holds the
\* registry's pointer for the matched name otherwise; its content is N
\* lowercased; and isCommonName() is true exactly for the handles that
\* hold a table pointer.
C8_Classification ==
  /\ last.op \in TextOps =>
       LET h == last.dst
           code == hash(raw[h])
       IN  /\ live[h]
           /\ IF code \in {HTTP_HEADER_NONE, HTTP_HEADER_OTHER}
                THEN /\ Owned(h)
                     /\ heap[address_[h]].used
                     /\ last.allocs = 1
                     /\ \A g \in Handles : g # h => address_[g] # address_[h]
                ELSE /\ address_[h] = getPointerToHeaderName(code)
                     /\ last.allocs = 0
           /\ StrEq(get(Cur, h), ToLower(raw[h]))
  /\ \A h \in Handles : live[h] => (isCommonName(Cur, h) <=> Borrowed(h))

\* A handle has just been assigned the custom name "B" and holds "b", with
\* a handle built from the common name "A" beside it.
C8_Witness ==
  /\ last.op = "assignText"
  /\ Owned(last.dst)
  /\ raw[last.dst] = <<66>>
  /\ get(Cur, last.dst) = <<98>>
  /\ \E g \in Handles : Borrowed(g) /\ raw[g] = <<65>> /\ isCommonName(Cur, g)

\* ---------------------------------------------------------------------- C9
\* Handle h is Empty after the step and was not Empty before it.
BecomesEmpty(h) == Empty(h)' /\ ~Empty(h)

\* C9 as stated: a handle becomes Empty only by default construction or as
\* the source of a move.
C9_EmptyOnlyByDefaultOrMove_Original ==
  [][\A h \in Handles :
       BecomesEmpty(h) =>
         \/ last'.op = "ctorDefault" /\ last'.dst = h
         \/ last'.op \in MoveOps /\ last'.src = h]_vars

\* C9 amended: a handle becomes Empty only by default construction, as the
\* source of a move, or as the destination of a copy or move whose source
\* is Empty when it is read, which is the case for an Empty source and for
\* a copy assignment of a handle to itself (the destination is reset
\* first); construction and assignment from text never leave it Empty.
C9_EmptyOnlyByDefaultMoveOrEmptySource ==
  [][/\ \A h \in Handles :
          BecomesEmpty(h) =>
            \/ last'.op = "ctorDefault" /\ last'.dst = h
            \/ last'.op \in MoveOps /\ last'.src = h
            \/ /\ last'.op \in CopyOps \cup MoveOps
               /\ last'.dst = h
               /\ (address_[last'.src] = nullptr \/ last'.src = h)
     /\ last'.op \in TextOps => address_'[last'.dst] # nullptr]_vars

\* A handle that owned a string has been copy-assigned from an Empty
\* handle and is now Empty.
C9_Witness ==
  /\ last.op = "assignCopy"
  /\ last.dst # last.src
  /\ last.frees = 1
  /\ Empty(last.dst)
  /\ Empty(last.src)

\* --------------------------------------------------------------------- C10
\* C10: the content of an owning handle is never a table entry and a
\* handle that does not own its string points into the table, so two
\* handles with the same content are both owning or both borrowing, and
\* two borrowing handles with the same content hold the same pointer.
C10_KindIsFunctionOfContent ==
  /\ \A h \in Handles :
       Valued(h) =>
         IF isAllocated(Cur, h)
           THEN \A c \in CommonCodes : ~StrEq(get(Cur, h), TableEntry(c))
           ELSE isHeaderNameFromTable(address_[h])
  /\ \A a, b \in Handles :
       Valued(a) /\ Valued(b) /\ StrEq(get(Cur, a), get(Cur, b)) =>
         /\ isAllocated(Cur, a) <=> isAllocated(Cur, b)
         /\ ~isAllocated(Cur, a) => address_[a] = address_[b]

\* Two owning handles with the same content beside a borrowing one, or two
\* borrowing handles with the same content, reached from names in
\* different case, beside an owning one.
C10_Witness ==
  \/ \E a, b, c \in Handles :
       /\ a # b /\ Owned(a) /\ Owned(b) /\ Borrowed(c)
       /\ StrEq(get(Cur, a), get(Cur, b))
       /\ last.op = "ctorCopy"
  \/ \E a, b, c \in Handles :
       /\ a # b /\ Borrowed(a) /\ Borrowed(b) /\ Owned(c)
       /\ raw[a] # raw[b]
       /\ address_[a] = address_[b]
       /\ last.op = "ctorText"

=============================================================================
